---- MODULE Spec2Model ----
(***************************************************************************)
(* TimberPy (app.py): tree-volume grid map.                                *)
(*                                                                         *)
(* Numbers.  Python floats are modelled as exact rationals <<n, d>> in     *)
(* lowest terms (d > 0).  A form factor is held in hundredths (0.4 is 40), *)
(* DBH in whole centimetres, height in whole metres, so that a volume      *)
(*   F * (pi/4) * (D/100)^2 * H                                            *)
(* is the integer F100 * D^2 * H counted in units of (pi/4) * 10^-6 m^3.   *)
(* Strings are sequences of one-character strings.                         *)
(***************************************************************************)
EXTENDS Integers, Sequences, FiniteSets

\* ------------------------------------------------------------------ bounds
MaxRecords == 2
MaxSize == 2
MaxLabelLen == 4

\* ------------------------------------------------------- program constants
FormFactorMin == 40
FormFactorMax == 60

VARIABLES
    excel_exists,   \* os.path.exists(excel_file)
    columns,        \* df.columns
    df,             \* the rows of the sheet, in sheet order
    x_size,         \* run parameter
    y_size,         \* run parameter
    pc,             \* position in create_grid_map
    i,              \* index of the next row of the running df.iterrows() loop
    grid,           \* np.zeros((y_size, x_size)), 0-based
    count_grid,     \* np.zeros((y_size, x_size)), 0-based
    warnings,       \* the A/A values of the "Warning: Skipping row" lines, in print order
    output_written, \* plt.savefig has written tree_volume_grid_map.png
    total_volume,   \* running total of the summary loop
    summary,        \* the values printed by the three summary lines
    error,          \* what "Error: ..." reported
    result,         \* the return value of create_grid_map
    coord_str,      \* the argument of a direct call of parse_coordinates
    parsed          \* the outcome of that call

vars == <<excel_exists, columns, df, x_size, y_size, pc, i, grid, count_grid,
          warnings, output_written, total_volume, summary, error, result,
          coord_str, parsed>>

pipeline_vars == <<excel_exists, columns, df, x_size, y_size, pc, i, grid, count_grid,
                   warnings, output_written, total_volume, summary, error, result>>

\* ------------------------------------------------------------- characters
UpperCase == <<"A","B","C","D","E","F","G","H","I","J","K","L","M",
               "N","O","P","Q","R","S","T","U","V","W","X","Y","Z">>

Digits == <<"0","1","2","3","4","5","6","7","8","9">>

IndexIn(c, s) == CHOOSE k \in 1..Len(s) : s[k] = c

\* ord(c) for the characters the model uses
ord(c) ==
    IF \E k \in 1..Len(UpperCase) : UpperCase[k] = c THEN 64 + IndexIn(c, UpperCase)
    ELSE IF \E k \in 1..Len(Digits) : Digits[k] = c THEN 47 + IndexIn(c, Digits)
    ELSE IF c = "a" THEN 97
    ELSE 32

\* [A-Z]
IsUpper(c) == ord(c) >= 65 /\ ord(c) <= 90

\* \d
IsDigit(c) == ord(c) >= 48 /\ ord(c) <= 57

\* ------------------------------------------------------ parse_coordinates
\* the greedy \d+ : number of digit characters of s from position p on
RECURSIVE DigitRun(_, _)
DigitRun(s, p) ==
    IF p <= Len(s) /\ IsDigit(s[p]) THEN 1 + DigitRun(s, p + 1) ELSE 0

\* [A-Z]{1,2} followed by \d+ with k letters, anchored at the start
MatchesWith(s, k) ==
    /\ Len(s) >= k
    /\ \A p \in 1..k : IsUpper(s[p])
    /\ DigitRun(s, k + 1) >= 1

\* re.fullmatch in place of re.match: nothing may follow the digits
re_fullmatch(s) ==
    IF MatchesWith(s, 2) /\ 2 + DigitRun(s, 3) = Len(s) THEN 2
    ELSE IF MatchesWith(s, 1) /\ 1 + DigitRun(s, 2) = Len(s) THEN 1
    ELSE 0

\* re.match(r'([A-Z]{1,2})(\d+)', s): the number of letters of group 1
\* (greedy: two letters are tried before one), 0 when there is no match
re_match(s) ==
    IF MatchesWith(s, 2) THEN 2
    ELSE IF MatchesWith(s, 1) THEN 1
    ELSE 0

\* int(row) of a string of digits
RECURSIVE int(_)
int(d) ==
    IF Len(d) = 0 THEN 0
    ELSE 10 * int(SubSeq(d, 1, Len(d) - 1)) + (ord(d[Len(d)]) - 48)

\* the two-letter branch as "(position + 1) * 26 + (position + 1)" with A at 1
col_of_plus_one(col_str) ==
    IF Len(col_str) = 1
    THEN ord(col_str[1]) - ord("A") + 1
    ELSE (ord(col_str[1]) - ord("A") + 2) * 26 + (ord(col_str[2]) - ord("A") + 2)

\* the column number of the letter group
col_of(col_str) ==
    IF Len(col_str) = 1
    THEN ord(col_str[1]) - ord("A") + 1
    ELSE (ord(col_str[1]) - ord("A") + 1) * 26 + (ord(col_str[2]) - ord("A") + 1)

\* parse_coordinates: raises ValueError or returns the tuple (int(row), col)
parse_coordinates(s) ==
    LET k == re_match(s) IN
    IF k = 0
    THEN [raised |-> TRUE, value |-> <<0, 0>>]
    ELSE [raised |-> FALSE,
          value |-> <<int(SubSeq(s, k + 1, k + DigitRun(s, k + 1))),
                      col_of(SubSeq(s, 1, k))>>]

\* -------------------------------------------------------------- rationals
RECURSIVE GCD(_, _)
GCD(a, b) == IF b = 0 THEN a ELSE GCD(b, a % b)

\* the float n/d, kept in lowest terms (n >= 0, d > 0)
Frac(n, d) == LET g == GCD(n, d) IN <<n \div g, d \div g>>

Zero == <<0, 1>>

FracAdd(a, b) == Frac(a[1] * b[2] + b[1] * a[2], a[2] * b[2])

FracDiv(a, b) == Frac(a[1] * b[2], a[2] * b[1])

\* ------------------------------------------------------------ sheet cells
\* a numeric cell of the sheet
Num(n) == [num |-> TRUE, v |-> n]

\* a cell pd.to_numeric(..., errors='coerce') turns into NaN
NotNumeric == [num |-> FALSE, v |-> 0]

RequiredColumns == {"A/A", "DBH (cm)", "Tree height (meters)",
                    "Form factor (0.4 to 0.6)", "Cordinates"}

\* ---------------------------------------------------------- validate_data
AllNumeric(rows, c) == \A k \in 1..Len(rows) : rows[k][c].num

\* the range check with strict comparisons: 0.4 and 0.6 themselves are refused
validate_data_exclusive(cols, rows) ==
    IF RequiredColumns \ cols # {} THEN "Missing required columns"
    ELSE IF ~AllNumeric(rows, "DBH (cm)") THEN "DBH values must be numeric"
    ELSE IF ~AllNumeric(rows, "Tree height (meters)") THEN "Tree height values must be numeric"
    ELSE IF ~AllNumeric(rows, "Form factor (0.4 to 0.6)") THEN "Form factor values must be numeric"
    ELSE IF ~(\A k \in 1..Len(rows) :
                /\ rows[k]["Form factor (0.4 to 0.6)"].v > FormFactorMin
                /\ rows[k]["Form factor (0.4 to 0.6)"].v < FormFactorMax)
         THEN "Form factor must be between 0.4 and 0.6"
    ELSE IF ~(\A k \in 1..Len(rows) : rows[k]["DBH (cm)"].v > 0) THEN "DBH must be positive"
    ELSE IF ~(\A k \in 1..Len(rows) : rows[k]["Tree height (meters)"].v > 0)
         THEN "Tree height must be positive"
    ELSE "ok"

\* the message of the ValueError validate_data raises, "ok" when it returns
validate_data(cols, rows) ==
    IF RequiredColumns \ cols # {} THEN "Missing required columns"
    ELSE IF ~AllNumeric(rows, "DBH (cm)") THEN "DBH values must be numeric"
    ELSE IF ~AllNumeric(rows, "Tree height (meters)") THEN "Tree height values must be numeric"
    ELSE IF ~AllNumeric(rows, "Form factor (0.4 to 0.6)") THEN "Form factor values must be numeric"
    ELSE IF ~(\A k \in 1..Len(rows) :
                /\ rows[k]["Form factor (0.4 to 0.6)"].v >= FormFactorMin
                /\ rows[k]["Form factor (0.4 to 0.6)"].v <= FormFactorMax)
         THEN "Form factor must be between 0.4 and 0.6"
    ELSE IF ~(\A k \in 1..Len(rows) : rows[k]["DBH (cm)"].v > 0) THEN "DBH must be positive"
    ELSE IF ~(\A k \in 1..Len(rows) : rows[k]["Tree height (meters)"].v > 0)
         THEN "Tree height must be positive"
    ELSE "ok"

\* ------------------------------------------------------- calculate_volume
\* F * (pi/4 * D^2 * H), in units of (pi/4) * 10^-6 m^3
calculate_volume(dbh, height, form_factor) ==
    Frac(form_factor * ((dbh * dbh) * height), 1)

row_volume(row) ==
    calculate_volume(row["DBH (cm)"].v, row["Tree height (meters)"].v,
                     row["Form factor (0.4 to 0.6)"].v)

\* ------------------------------------------------------- the per-row loop
zeros(ys, xs) == [r \in 0..(ys - 1) |-> [c \in 0..(xs - 1) |-> Zero]]

\* the guard of the accumulation: 1 <= x <= x_size and 1 <= y <= y_size
in_bounds(x, y, xs, ys) == 1 <= x /\ x <= xs /\ 1 <= y /\ y <= ys

\* "=" in place of "+=": the last row of a cell wins
set_volume(g, x, y, volume) ==
    [g EXCEPT ![y - 1][x - 1] = volume]

\* grid[y-1, x-1] += volume
add_volume(g, x, y, volume) ==
    [g EXCEPT ![y - 1][x - 1] = FracAdd(@, volume)]

\* count_grid[y-1, x-1] += 1
add_count(cg, x, y) ==
    [cg EXCEPT ![y - 1][x - 1] = FracAdd(@, <<1, 1>>)]

\* the iteration with the tuple unpacked as "y, x = parse_coordinates(...)":
\* the digits bounded by y_size, the letters by x_size, cell [digits-1][letters-1]
process_row_transposed(st, row, xs, ys) ==
    LET p == parse_coordinates(row["Cordinates"])
        x == p.value[2]
        y == p.value[1]
    IN  IF p.raised
        THEN [st EXCEPT !.warnings = Append(@, row["A/A"])]
        ELSE IF in_bounds(x, y, xs, ys)
             THEN [st EXCEPT !.grid = add_volume(@, x, y, row_volume(row)),
                             !.count_grid = add_count(@, x, y)]
             ELSE st

\* the iteration with "except ValueError: pass": no warning is printed
process_row_silent(st, row, xs, ys) ==
    LET p == parse_coordinates(row["Cordinates"])
        x == p.value[1]
        y == p.value[2]
    IN  IF p.raised
        THEN st
        ELSE IF in_bounds(x, y, xs, ys)
             THEN [st EXCEPT !.grid = add_volume(@, x, y, row_volume(row)),
                             !.count_grid = add_count(@, x, y)]
             ELSE st

\* one iteration of "for _, row in df.iterrows()": st holds grid, count_grid
\* and the warnings printed so far
process_row(st, row, xs, ys) ==
    LET p == parse_coordinates(row["Cordinates"])
        x == p.value[1]
        y == p.value[2]
    IN  IF p.raised
        THEN [st EXCEPT !.warnings = Append(@, row["A/A"])]
        ELSE IF in_bounds(x, y, xs, ys)
             THEN [st EXCEPT !.grid = add_volume(@, x, y, row_volume(row)),
                             !.count_grid = add_count(@, x, y)]
             ELSE st

\* the reduction left out: the cell keeps its sum
reduce_cell_sum(sum, count) == sum

\* mask = count_grid > 0; grid[mask] = grid[mask] / count_grid[mask]
reduce_cell(sum, count) == IF count[1] > 0 THEN FracDiv(sum, count) ELSE sum

reduce(g, cg) ==
    [r \in DOMAIN g |-> [c \in DOMAIN g[r] |-> reduce_cell(g[r][c], cg[r][c])]]

\* the whole first loop over rows[1..n], from the zero grids
RECURSIVE run_rows(_, _, _, _)
run_rows(rows, n, xs, ys) ==
    IF n = 0
    THEN [grid |-> zeros(ys, xs), count_grid |-> zeros(ys, xs), warnings |-> <<>>]
    ELSE process_row(run_rows(rows, n - 1, xs, ys), rows[n], xs, ys)

\* ------------------------------------------------------------ the inputs
\* (DBH, height, form factor in hundredths) of rows that pass validation
ValidMeasures == {<<Num(30), Num(10), Num(FormFactorMin)>>,
                  <<Num(10), Num(10), Num(FormFactorMax)>>}

\* rows that break one rule of validate_data each
InvalidMeasures == {<<NotNumeric, Num(10), Num(50)>>,
                    <<Num(10), NotNumeric, Num(50)>>,
                    <<Num(10), Num(10), NotNumeric>>,
                    <<Num(10), Num(10), Num(65)>>,
                    <<Num(10), Num(10), Num(39)>>,
                    <<Num(0 - 5), Num(10), Num(50)>>,
                    <<Num(10), Num(0), Num(50)>>}

\* coordinate labels of the sheet: A1, B1 and A2 name cells, A0 and AA1 lie
\* outside every grid of the model, 5A does not parse
SheetLabels == {<<"A","1">>, <<"B","1">>, <<"A","2">>, <<"A","0">>,
                <<"A","A","1">>, <<"5","A">>}

BaseRows == (ValidMeasures \X SheetLabels) \cup (InvalidMeasures \X {<<"A","1">>})

ColumnSets == {RequiredColumns,
               RequiredColumns \cup {"Coordinates"},
               RequiredColumns \ {"Cordinates"}}

\* row k of a sheet with the columns cols; A/A numbers the rows from 1
SheetRow(cols, k, b) ==
    [c \in cols |->
        CASE c = "A/A" -> k
          [] c = "DBH (cm)" -> b[1][1]
          [] c = "Tree height (meters)" -> b[1][2]
          [] c = "Form factor (0.4 to 0.6)" -> b[1][3]
          [] OTHER -> b[2]]

Sheets(cols) ==
    UNION {{[k \in 1..n |-> SheetRow(cols, k, bs[k])] : bs \in [1..n -> BaseRows]}
           : n \in 0..MaxRecords}

NoSummary == [printed |-> 0, n_trees |-> 0, total_volume |-> Zero, average |-> Zero]

NotCalled == [raised |-> FALSE, value |-> <<0, 0>>, called |-> FALSE]

Init ==
    /\ excel_exists \in BOOLEAN
    /\ IF excel_exists
       THEN /\ columns \in ColumnSets
            /\ df \in Sheets(columns)
       ELSE /\ columns = {}
            /\ df = <<>>
    /\ x_size \in 1..MaxSize
    /\ y_size \in 1..MaxSize
    /\ pc = "exists"
    /\ i = 0
    /\ grid = <<>>
    /\ count_grid = <<>>
    /\ warnings = <<>>
    /\ output_written = FALSE
    /\ total_volume = Zero
    /\ summary = NoSummary
    /\ error = "none"
    /\ result = "running"
    /\ coord_str = <<>>
    /\ parsed = NotCalled

\* except Exception as e: print(f"Error: {str(e)}"); return False
Fail(msg) ==
    /\ pc' = "done"
    /\ error' = msg
    /\ result' = "False"

\* if not os.path.exists(excel_file): raise FileNotFoundError; else read it
CheckExists ==
    /\ pc = "exists"
    /\ IF excel_exists
       THEN pc' = "validate" /\ UNCHANGED <<error, result>>
       ELSE Fail("Excel file not found")
    /\ UNCHANGED <<excel_exists, columns, df, x_size, y_size, i, grid, count_grid,
                   warnings, output_written, total_volume, summary, coord_str, parsed>>

\* validate_data(df), then the two np.zeros
Validate ==
    /\ pc = "validate"
    /\ LET v == validate_data(columns, df) IN
       IF v = "ok"
       THEN /\ grid' = zeros(y_size, x_size)
            /\ count_grid' = zeros(y_size, x_size)
            /\ i' = 1
            /\ pc' = "rows"
            /\ UNCHANGED <<error, result>>
       ELSE /\ Fail(v)
            /\ UNCHANGED <<grid, count_grid, i>>
    /\ UNCHANGED <<excel_exists, columns, df, x_size, y_size,
                   warnings, output_written, total_volume, summary, coord_str, parsed>>

\* one iteration of the first df.iterrows() loop
ProcessRow ==
    /\ pc = "rows"
    /\ i <= Len(df)
    /\ LET st == process_row([grid |-> grid, count_grid |-> count_grid,
                              warnings |-> warnings], df[i], x_size, y_size)
       IN /\ grid' = st.grid
          /\ count_grid' = st.count_grid
          /\ warnings' = st.warnings
    /\ i' = i + 1
    /\ UNCHANGED <<excel_exists, columns, df, x_size, y_size, pc,
                   output_written, total_volume, summary, error, result, coord_str, parsed>>

\* the loop is over: the mask division
Reduce ==
    /\ pc = "rows"
    /\ i > Len(df)
    /\ grid' = reduce(grid, count_grid)
    /\ pc' = "render"
    /\ UNCHANGED <<excel_exists, columns, df, x_size, y_size, i, count_grid,
                   warnings, output_written, total_volume, summary, error, result,
                   coord_str, parsed>>

\* plt.figure ... plt.tight_layout: matplotlib and PIL either go through or raise
Render ==
    /\ pc = "render"
    /\ \/ pc' = "save" /\ UNCHANGED <<error, result>>
       \/ Fail("rendering failed")
    /\ UNCHANGED <<excel_exists, columns, df, x_size, y_size, i, grid, count_grid,
                   warnings, output_written, total_volume, summary, coord_str, parsed>>

\* plt.savefig(output_file), plt.close(), total_volume = 0
SaveFig ==
    /\ pc = "save"
    /\ \/ /\ output_written' = TRUE
          /\ pc' = "summary"
          /\ i' = 1
          /\ total_volume' = Zero
          /\ UNCHANGED <<error, result>>
       \/ /\ Fail("savefig failed")
          /\ UNCHANGED <<output_written, i, total_volume>>
    /\ UNCHANGED <<excel_exists, columns, df, x_size, y_size, grid, count_grid,
                   warnings, summary, coord_str, parsed>>

\* one iteration of the summary loop: the volume is added to the total, then
\* the line is formatted, which reads row['Coordinates']
SummaryRow ==
    /\ pc = "summary"
    /\ i <= Len(df)
    /\ total_volume' = FracAdd(total_volume, row_volume(df[i]))
    /\ IF "Coordinates" \in columns
       THEN i' = i + 1 /\ UNCHANGED <<pc, error, result>>
       ELSE Fail("KeyError: 'Coordinates'") /\ UNCHANGED i
    /\ UNCHANGED <<excel_exists, columns, df, x_size, y_size, grid, count_grid,
                   warnings, output_written, summary, coord_str, parsed>>

\* the three closing prints and return True; the third divides by len(df)
Totals ==
    /\ pc = "summary"
    /\ i > Len(df)
    /\ IF Len(df) = 0
       THEN /\ summary' = [printed |-> 2, n_trees |-> Len(df),
                           total_volume |-> total_volume, average |-> Zero]
            /\ Fail("division by zero")
       ELSE /\ summary' = [printed |-> 3, n_trees |-> Len(df),
                           total_volume |-> total_volume,
                           average |-> FracDiv(total_volume, <<Len(df), 1>>)]
            /\ pc' = "done"
            /\ result' = "True"
            /\ UNCHANGED error
    /\ UNCHANGED <<excel_exists, columns, df, x_size, y_size, i, grid, count_grid,
                   warnings, output_written, total_volume, coord_str, parsed>>

Next ==
    \/ CheckExists
    \/ Validate
    \/ ProcessRow
    \/ Reduce
    \/ Render
    \/ SaveFig
    \/ SummaryRow
    \/ Totals

Spec == Init /\ [][Next]_vars

\* ------------------------------------------- parse_coordinates on its own
LabelAlphabet == {"A", "B", "Z", "a", "1", "5", " "}

LabelStrings == UNION {[1..n -> LabelAlphabet] : n \in 0..MaxLabelLen}

InitParse ==
    /\ coord_str \in LabelStrings
    /\ parsed = NotCalled
    /\ excel_exists = FALSE
    /\ columns = {}
    /\ df = <<>>
    /\ x_size = 1
    /\ y_size = 1
    /\ pc = "idle"
    /\ i = 0
    /\ grid = <<>>
    /\ count_grid = <<>>
    /\ warnings = <<>>
    /\ output_written = FALSE
    /\ total_volume = Zero
    /\ summary = NoSummary
    /\ error = "none"
    /\ result = "running"

\* a call parse_coordinates(coord_str)
CallParse ==
    /\ ~parsed.called
    /\ parsed' = [raised |-> parse_coordinates(coord_str).raised,
                  value |-> parse_coordinates(coord_str).value,
                  called |-> TRUE]
    /\ UNCHANGED <<coord_str, pipeline_vars>>

NextParse == CallParse

ParseSpec == InitParse /\ [][NextParse]_vars

\* ------------------------------------------------------------------ claims
\* what the claims say of a label, stated without the regular expression
UpperSet == {UpperCase[k] : k \in 1..Len(UpperCase)}

DigitSet == {Digits[k] : k \in 1..Len(Digits)}

\* A = 1 ... Z = 26
LetterValue(c) == CHOOSE k \in 1..26 : UpperCase[k] = c

DigitValue(c) == (CHOOSE k \in 1..10 : Digits[k] = c) - 1

\* the label begins with k uppercase letters immediately followed by a digit
BeginsWith(s, k) ==
    /\ Len(s) >= k + 1
    /\ \A p \in 1..k : s[p] \in UpperSet
    /\ s[k + 1] \in DigitSet

Parsable(s) == BeginsWith(s, 1) \/ BeginsWith(s, 2)

LetterCount(s) == IF BeginsWith(s, 2) THEN 2 ELSE 1

\* the last position of the digit run that follows the letters
DigitsEnd(s) ==
    CHOOSE e \in (LetterCount(s) + 1)..Len(s) :
        /\ \A p \in (LetterCount(s) + 1)..e : s[p] \in DigitSet
        /\ (e = Len(s) \/ s[e + 1] \notin DigitSet)

\* the value of the decimal numeral s[a..b]
RECURSIVE Decimal(_, _, _)
Decimal(s, a, b) ==
    IF b < a THEN 0 ELSE 10 * Decimal(s, a, b - 1) + DigitValue(s[b])

LabelRow(s) == Decimal(s, LetterCount(s) + 1, DigitsEnd(s))

\* one or two uppercase letters followed by digits and nothing else
LettersThenDigits(s) == Parsable(s) /\ DigitsEnd(s) = Len(s)

\* C8 as stated: on every label of one or two uppercase letters followed by
\* digits parse_coordinates returns (digit value, letter value), with A = 1 ...
\* Z = 26 for one letter and "AA" = 54, not spreadsheet numbering, for two:
\* (value(L1) + 1) * 26 + (value(L2) + 1).
C8_AsStated ==
    (parsed.called /\ LettersThenDigits(coord_str)) =>
        /\ ~parsed.raised
        /\ parsed.value[1] = LabelRow(coord_str)
        /\ parsed.value[2] =
             IF LetterCount(coord_str) = 1
             THEN LetterValue(coord_str[1])
             ELSE (LetterValue(coord_str[1]) + 1) * 26 + (LetterValue(coord_str[2]) + 1)
        /\ (coord_str = <<"A", "A", "1">> => parsed.value = <<1, 54>>)

\* C8 amended: on every label of one or two uppercase letters followed by
\* digits parse_coordinates returns (digit value, letter value), with A = 1 ...
\* Z = 26 for one letter ("A5" gives (5, 1), "B5" gives (5, 2)) and
\* value(L1) * 26 + value(L2) for two letters, which is spreadsheet numbering:
\* "AA1" gives row 1 and column 27.
C8_ParseValue ==
    (parsed.called /\ LettersThenDigits(coord_str)) =>
        /\ ~parsed.raised
        /\ parsed.value[1] = LabelRow(coord_str)
        /\ parsed.value[2] =
             IF LetterCount(coord_str) = 1
             THEN LetterValue(coord_str[1])
             ELSE LetterValue(coord_str[1]) * 26 + LetterValue(coord_str[2])
        /\ (coord_str = <<"A", "5">> => parsed.value = <<5, 1>>)
        /\ (coord_str = <<"B", "5">> => parsed.value = <<5, 2>>)
        /\ (coord_str = <<"A", "A", "1">> => parsed.value = <<1, 27>>)

C8_Witness ==
    /\ parsed.called
    /\ coord_str = <<"A", "A", "1">>
    /\ parsed.value = <<1, 27>>

\* C9: parse_coordinates raises exactly when the label does not begin with one
\* or two uppercase letters immediately followed by a digit; "", "5A", "a5",
\* " A5" and "AAB5" raise; what follows the digit run changes nothing: the
\* result is that of the label cut after its digit run.
C9_FailsExactlyOffPattern ==
    parsed.called =>
        /\ parsed.raised <=> ~Parsable(coord_str)
        /\ coord_str \in {<<>>, <<"5", "A">>, <<"a", "5">>, <<" ", "A", "5">>,
                          <<"A", "A", "B", "5">>} => parsed.raised
        /\ ~parsed.raised =>
              /\ parsed.value[1] = LabelRow(coord_str)
              /\ parsed.value = parse_coordinates(SubSeq(coord_str, 1, DigitsEnd(coord_str))).value

C9_Witness ==
    /\ parsed.called
    /\ coord_str = <<"A", "5", " ", "a">>
    /\ ~parsed.raised
    /\ parsed.value = <<5, 1>>

\* ---- the grid, stated from the labels
LabelCol(s) ==
    IF LetterCount(s) = 1 THEN LetterValue(s[1])
    ELSE LetterValue(s[1]) * 26 + LetterValue(s[2])

\* F * D^2 * H of row k
Vol(k) ==
    df[k]["Form factor (0.4 to 0.6)"].v * df[k]["DBH (cm)"].v
        * df[k]["DBH (cm)"].v * df[k]["Tree height (meters)"].v

RECURSIVE SumVol(_)
SumVol(S) == IF S = {} THEN 0 ELSE LET k == CHOOSE k \in S : TRUE IN Vol(k) + SumVol(S \ {k})

Label(k) == df[k]["Cordinates"]

\* rows 1..n whose digits give the grid row and whose letters give the grid column
DigitRowCell(r, c, n) ==
    {k \in 1..n : Parsable(Label(k)) /\ LabelRow(Label(k)) - 1 = r /\ LabelCol(Label(k)) - 1 = c}

\* rows 1..n whose letters give the grid row and whose digits give the grid column
LetterRowCell(r, c, n) ==
    {k \in 1..n : Parsable(Label(k)) /\ LabelCol(Label(k)) - 1 = r /\ LabelRow(Label(k)) - 1 = c}

\* rows 1..n that parse to a place outside the grid, digits against bx, letters against by
Outside(n, bx, by) ==
    {k \in 1..n : Parsable(Label(k)) /\ ~(/\ 1 <= LabelRow(Label(k)) /\ LabelRow(Label(k)) <= bx
                                          /\ 1 <= LabelCol(Label(k)) /\ LabelCol(Label(k)) <= by)}

Cells == {<<r, c>> : r \in 0..(y_size - 1), c \in 0..(x_size - 1)}

\* C1 as stated: a parsed record is added iff 1 <= digits <= y_size and
\* 1 <= letters <= x_size, and then to cell [digits-1][letters-1]: while the
\* loop runs, every cell holds the count and the volume sum of the rows
\* processed so far whose digits name its row and whose letters its column.
C1_AsStated ==
    pc = "rows" =>
        \A rc \in Cells :
            /\ count_grid[rc[1]][rc[2]] = <<Cardinality(DigitRowCell(rc[1], rc[2], i - 1)), 1>>
            /\ grid[rc[1]][rc[2]] = <<SumVol(DigitRowCell(rc[1], rc[2], i - 1)), 1>>

\* C1 amended: a parsed record is added iff 1 <= digits <= x_size and
\* 1 <= letters <= y_size (digits against x_size, letters against y_size), and
\* then it adds its volume to cell [letters-1][digits-1] of the y_size-by-x_size
\* grid and 1 to that cell's count; every other record leaves the grid alone.
C1_LettersAreRows ==
    pc = "rows" =>
        \A rc \in Cells :
            /\ count_grid[rc[1]][rc[2]] = <<Cardinality(LetterRowCell(rc[1], rc[2], i - 1)), 1>>
            /\ grid[rc[1]][rc[2]] = <<SumVol(LetterRowCell(rc[1], rc[2], i - 1)), 1>>

\* "B1" on a grid one column wide and two rows high lands in cell [1][0]
C1_Witness ==
    /\ pc = "rows"
    /\ i > Len(df)
    /\ x_size = 1
    /\ y_size = 2
    /\ \E k \in 1..Len(df) : Label(k) = <<"B", "1">>
    /\ count_grid[1][0][1] >= 1
    /\ Outside(Len(df), x_size, y_size) # {}

Reduced == pc \in {"render", "save", "summary", "done"} /\ grid # <<>>

\* C4: after the reduction a cell that received rows holds the mean (sum over
\* count) of all their volumes, a cell that received none holds 0; while the
\* loop runs the cells hold undivided sums.
C4_MeanAfterReduction ==
    /\ Reduced =>
         \A rc \in Cells :
            LET S == LetterRowCell(rc[1], rc[2], Len(df)) IN
            grid[rc[1]][rc[2]] = IF S # {} THEN Frac(SumVol(S), Cardinality(S)) ELSE Zero
    /\ pc = "rows" =>
         \A rc \in Cells : grid[rc[1]][rc[2]] = <<SumVol(LetterRowCell(rc[1], rc[2], i - 1)), 1>>

\* two rows of different volume in one cell, and an empty cell beside it
C4_Witness ==
    /\ pc = "render"
    /\ \E rc \in Cells :
          /\ count_grid[rc[1]][rc[2]] = <<2, 1>>
          /\ grid[rc[1]][rc[2]] = <<210000, 1>>
    /\ \E rc \in Cells :
          /\ count_grid[rc[1]][rc[2]] = Zero
          /\ grid[rc[1]][rc[2]] = Zero

\* ---- validation, stated rule by rule
\* the messages of the rules the batch breaks
BrokenRules ==
    {m \in {"Missing required columns", "DBH values must be numeric",
            "Tree height values must be numeric", "Form factor values must be numeric",
            "Form factor must be between 0.4 and 0.6", "DBH must be positive",
            "Tree height must be positive"} :
        \/ m = "Missing required columns" /\ ~(RequiredColumns \subseteq columns)
        \/ \E k \in 1..Len(df) :
              \/ /\ m = "DBH values must be numeric"
                 /\ "DBH (cm)" \in columns /\ ~df[k]["DBH (cm)"].num
              \/ /\ m = "Tree height values must be numeric"
                 /\ "Tree height (meters)" \in columns /\ ~df[k]["Tree height (meters)"].num
              \/ /\ m = "Form factor values must be numeric"
                 /\ "Form factor (0.4 to 0.6)" \in columns /\ ~df[k]["Form factor (0.4 to 0.6)"].num
              \/ /\ m = "Form factor must be between 0.4 and 0.6"
                 /\ "Form factor (0.4 to 0.6)" \in columns /\ df[k]["Form factor (0.4 to 0.6)"].num
                 /\ \/ df[k]["Form factor (0.4 to 0.6)"].v < 40
                    \/ df[k]["Form factor (0.4 to 0.6)"].v > 60
              \/ /\ m = "DBH must be positive"
                 /\ "DBH (cm)" \in columns /\ df[k]["DBH (cm)"].num /\ df[k]["DBH (cm)"].v <= 0
              \/ /\ m = "Tree height must be positive"
                 /\ "Tree height (meters)" \in columns /\ df[k]["Tree height (meters)"].num
                 /\ df[k]["Tree height (meters)"].v <= 0}

Validated == excel_exists /\ pc \notin {"exists", "validate"}

\* C5: once validation has run, a batch that breaks any rule has failed with
\* the message of a rule it breaks, no grid was created and no row was parsed,
\* warned about or accumulated; a batch that breaks none (form factors of
\* exactly 0.4 and 0.6 included) went on to the per-row loop.
C5_ValidationAllOrNothing ==
    Validated =>
        IF BrokenRules # {}
        THEN /\ pc = "done"
             /\ result = "False"
             /\ error \in BrokenRules
             /\ grid = <<>>
             /\ count_grid = <<>>
             /\ warnings = <<>>
             /\ i = 0
             /\ ~output_written
        ELSE /\ grid # <<>>
             /\ count_grid # <<>>
             /\ i >= 1
             /\ error \notin {"Missing required columns", "DBH values must be numeric",
                              "Tree height values must be numeric",
                              "Form factor values must be numeric",
                              "Form factor must be between 0.4 and 0.6",
                              "DBH must be positive", "Tree height must be positive"}

\* a valid first row followed by a row with DBH = -5
C5_Witness ==
    /\ pc = "done"
    /\ error = "DBH must be positive"
    /\ Len(df) = 2
    /\ df[1]["Form factor (0.4 to 0.6)"].v = 40
    /\ df[1]["DBH (cm)"].v > 0
    /\ df[2]["DBH (cm)"].v = 0 - 5
    /\ grid = <<>>

\* the A/A of the rows among 1..n whose label does not parse, in sheet order
RECURSIVE Unparsable(_)
Unparsable(n) ==
    IF n = 0 THEN <<>>
    ELSE IF Parsable(Label(n)) THEN Unparsable(n - 1)
    ELSE Append(Unparsable(n - 1), df[n]["A/A"])

RowOrders(n) == {f \in [1..n -> 1..n] : \A a, b \in 1..n : f[a] = f[b] => a = b}

Permuted(f) == [k \in 1..Len(df) |-> df[f[k]]]

RenderingFailed == error \in {"rendering failed", "savefig failed"}

\* C2: a run on a validated batch of at least one row, in which nothing but
\* labels that do not parse or lie outside the grid can go wrong, ends with
\* the result True.
C2_SucceedsOnSparseGrid ==
    (pc = "done" /\ excel_exists /\ BrokenRules = {} /\ Len(df) >= 1 /\ ~RenderingFailed)
        => result = "True"

\* C3: a run that returns False has written no output image.
C3_NoOutputOnFailure ==
    result = "False" => ~output_written

\* C7: a run on a validated batch of at least one row reports the number of
\* rows, the sum of the volumes of all rows (inside the grid or not) and their
\* quotient.
C7_SummaryCountsEveryRow ==
    (pc = "done" /\ excel_exists /\ BrokenRules = {} /\ Len(df) >= 1 /\ ~RenderingFailed)
        => /\ summary.printed = 3
           /\ summary.n_trees = Len(df)
           /\ summary.total_volume = <<SumVol(1..Len(df)), 1>>
           /\ summary.average = Frac(SumVol(1..Len(df)), Len(df))

====
